---- MODULE Spec2Model ----
(***************************************************************************)
(* chibi: voice-activity detection pipeline.                               *)
(*                                                                         *)
(* The audio callback (capture_input in capture/mod.rs, capture.rs and     *)
(* mic_capture.rs) turns one buffer of f32 samples into a hysteresis       *)
(* decision, emits bool events into an async_channel, and appends i16      *)
(* samples to an accumulation buffer.  ChibiApp::update consumes the       *)
(* events as Message::MicActive and writes the shared ChibiConfig.         *)
(*                                                                         *)
(* f32 arithmetic is modelled as binary floating point with round to       *)
(* nearest, ties to even, on a significand of MantBits bits (24 in the     *)
(* program) and an unbounded exponent: every +, *, /, sqrt of the source   *)
(* is one rounded operation here.                                          *)
(***************************************************************************)
EXTENDS Integers, Sequences, FiniteSets, TLC

\* ------------------------------------------------------------------ bounds
MantBits == 7          \* significand width of the modelled f32
MaxCallbacks == 2      \* audio callbacks per behaviour
MaxReconfigs == 1      \* settings messages per behaviour
MaxFrames == 3         \* frames fed to the pair of detectors
MaxErrors == 1         \* stream errors the platform reports per behaviour

\* ------------------------------------------------------- f32 arithmetic
RECURSIVE BitLen(_)
BitLen(n) == IF n = 0 THEN 0 ELSE 1 + BitLen(n \div 2)

Abs(n) == IF n < 0 THEN -n ELSE n

Min2(a, b) == IF a < b THEN a ELSE b

NaN == [nan |-> TRUE, m |-> 0, e |-> 0]

Zero == [nan |-> FALSE, m |-> 0, e |-> 0]

\* the f32 nearest to sgn * n * 2^e  (n >= 0), ties to even
Round(sgn, n, e) ==
    LET b == BitLen(n) IN
    IF n = 0 THEN Zero
    ELSE IF b <= MantBits
         THEN [nan |-> FALSE, m |-> sgn * n * 2^(MantBits - b), e |-> e - (MantBits - b)]
         ELSE LET s    == b - MantBits
                  q    == n \div 2^s
                  r    == n % 2^s
                  half == 2^(s - 1)
                  up   == r > half \/ (r = half /\ q % 2 = 1)
                  q2   == IF up THEN q + 1 ELSE q
              IN IF q2 = 2^MantBits
                 THEN [nan |-> FALSE, m |-> sgn * 2^(MantBits - 1), e |-> e + s + 1]
                 ELSE [nan |-> FALSE, m |-> sgn * q2, e |-> e + s]

Sign(n) == IF n < 0 THEN -1 ELSE 1

\* the f32 nearest to num / den (num >= 0, den > 0): a decimal literal or
\* a correctly rounded quotient of two exactly representable integers
RoundRat(num, den) ==
    LET s   == MantBits + 2 + BitLen(den)
        big == num * 2^s
        q   == big \div den
        st  == IF big % den = 0 THEN 0 ELSE 1
    IN Round(1, 2 * q + st, -s - 1)

FromInt(n) == Round(Sign(n), Abs(n), 0)

FNeg(a) == [a EXCEPT !.m = -a.m]

FMul(a, b) ==
    IF a.nan \/ b.nan THEN NaN
    ELSE Round(Sign(a.m) * Sign(b.m), Abs(a.m) * Abs(b.m), a.e + b.e)

FAdd(a, b) ==
    IF a.nan \/ b.nan THEN NaN
    ELSE IF a.m = 0 THEN b
    ELSE IF b.m = 0 THEN a
    ELSE IF a.e - b.e > MantBits + 1 THEN a
    ELSE IF b.e - a.e > MantBits + 1 THEN b
    ELSE LET lo == Min2(a.e, b.e)
             n  == a.m * 2^(a.e - lo) + b.m * 2^(b.e - lo)
         IN Round(Sign(n), Abs(n), lo)

\* 0.0 / 0.0 is NaN; a nonzero dividend over 0.0 does not arise (the sum
\* over an empty slice is 0.0)
FDiv(a, b) ==
    IF a.nan \/ b.nan \/ b.m = 0 THEN NaN
    ELSE IF a.m = 0 THEN Zero
    ELSE LET big == Abs(a.m) * 2^(MantBits + 2)
             q   == big \div Abs(b.m)
             st  == IF big % Abs(b.m) = 0 THEN 0 ELSE 1
         IN Round(Sign(a.m) * Sign(b.m), 2 * q + st, a.e - b.e - (MantBits + 2) - 1)

RECURSIVE ISqrtFrom(_, _, _)
ISqrtFrom(n, r, bit) ==
    IF bit = 0 THEN r
    ELSE ISqrtFrom(n, IF (r + bit) * (r + bit) <= n THEN r + bit ELSE r, bit \div 2)

\* floor of the square root of n < 2^(2 * MantBits + 3)
ISqrt(n) == ISqrtFrom(n, 0, 2^(MantBits + 1))

FSqrt(a) ==
    IF a.nan \/ a.m < 0 THEN NaN
    ELSE IF a.m = 0 THEN Zero
    ELSE LET s  == IF (a.e - (MantBits + 2)) % 2 = 0 THEN MantBits + 2 ELSE MantBits + 3
             n  == a.m * 2^s
             r  == ISqrt(n)
             st == IF r * r = n THEN 0 ELSE 1
         IN Round(1, 2 * r + st, ((a.e - s) \div 2) - 1)

\* a < b on f32 values; any comparison with NaN is false
FLt(a, b) ==
    /\ ~a.nan /\ ~b.nan
    /\ IF a.m = 0 THEN b.m > 0
       ELSE IF b.m = 0 THEN a.m < 0
       ELSE IF a.m < 0 /\ b.m > 0 THEN TRUE
       ELSE IF a.m > 0 /\ b.m < 0 THEN FALSE
       ELSE IF a.m > 0 THEN a.e < b.e \/ (a.e = b.e /\ a.m < b.m)
       ELSE a.e > b.e \/ (a.e = b.e /\ a.m < b.m)

FGe(a, b) == ~a.nan /\ ~b.nan /\ ~FLt(a, b)

\* a == b on f32 values
FEq(a, b) == ~a.nan /\ ~b.nan /\ a = b

FAbs(a) == [a EXCEPT !.m = Abs(a.m)]

FLe(a, b) == FGe(b, a)

\* f32::max / f32::min: the other operand when one is NaN
FMax(a, b) == IF a.nan THEN b ELSE IF b.nan THEN a ELSE IF FLt(a, b) THEN b ELSE a

FMin(a, b) == IF a.nan THEN b ELSE IF b.nan THEN a ELSE IF FLt(b, a) THEN b ELSE a

I16Max == 32767

I16Min == -32768

\* `x as i16`: NaN is 0, otherwise truncate toward zero and saturate
AsI16(x) ==
    IF x.nan \/ x.m = 0 THEN 0
    ELSE IF x.e > 15 THEN (IF x.m < 0 THEN I16Min ELSE I16Max)
    ELSE LET mag == IF x.e >= 0 THEN Abs(x.m) * 2^x.e
                    ELSE IF -x.e > MantBits THEN 0
                    ELSE Abs(x.m) \div 2^(-x.e)
             v   == Sign(x.m) * mag
         IN IF v > I16Max THEN I16Max ELSE IF v < I16Min THEN I16Min ELSE v

\* the f32 written as the decimal h/100
Dec(h) == IF h < 0 THEN FNeg(RoundRat(-h, 100)) ELSE RoundRat(h, 100)

\* the nearest integer to 100 * x, ties to even: format!("{:.2}", x)
ToHundredths(x) ==
    IF x.nan \/ x.m = 0 THEN 0
    ELSE IF x.e >= 0 THEN x.m * 100 * 2^x.e
    ELSE LET num == Abs(x.m) * 100
             den == 2^(-x.e)
             q   == num \div den
             r   == num % den
             up  == 2 * r > den \/ (2 * r = den /\ q % 2 = 1)
         IN Sign(x.m) * (IF up THEN q + 1 ELSE q)

\* ------------------------------------------------------ inputs and domains
Impls == {"capture_mod", "capture", "mic_capture"}

\* slider positions (hundredths) the settings view can send, app.rs:196-209
ThresholdSteps == {0, 12}

DeadbandSteps == {0, 50}

\* a buffer of f32 samples written in hundredths
Buf(hs) == [i \in 1..Len(hs) |-> Dec(hs[i])]

\* buffers the platform delivers to the callback
Buffers ==
    { Buf(<<>>), Buf(<<0, 0>>), Buf(<<6>>), Buf(<<12, 12, 12>>), Buf(<<30, -150>>) }

\* the six-buffer scenario: threshold = 0.5, deadband_factor = 0.5, flicker
\* disabled, and the RMS of the successive buffers, in hundredths
ScenarioFile == [microphone_threshold |-> 50, deadband_factor |-> 50, flicker_input |-> FALSE]

ScenarioRms == <<10, 60, 40, 30, 24, 60>>

ScenarioActive == <<FALSE, TRUE, TRUE, TRUE, FALSE, TRUE>>

ScenarioBuffers ==
    UNION { { Buf(<<h>>), Buf(<<-h>>), Buf(<<h, -h>>), Buf(<<h, h, h>>) } :
            h \in { ScenarioRms[i] : i \in 1..Len(ScenarioRms) } }

AllBuffers == Buffers \cup ScenarioBuffers

\* ------------------------------------------------------------ config.rs
\* impl Default for ChibiConfig
DefaultConfig ==
    [microphone_threshold |-> Dec(12), deadband_factor |-> Dec(30), flicker_input |-> FALSE]

\* toml::to_string(self) with round_to_hundredths on the two f32 fields
Serialize(c) ==
    [microphone_threshold |-> ToHundredths(c.microphone_threshold),
     deadband_factor      |-> ToHundredths(c.deadband_factor),
     flicker_input        |-> c.flicker_input]

\* toml::from_str: the decimal of the file becomes the nearest f32
Deserialize(t) ==
    [microphone_threshold |-> Dec(t.microphone_threshold),
     deadband_factor      |-> Dec(t.deadband_factor),
     flicker_input        |-> t.flicker_input]

\* config.toml files an earlier session of the program can have saved
SavedFiles ==
    [microphone_threshold : ThresholdSteps, deadband_factor : DeadbandSteps,
     flicker_input : BOOLEAN]

\* config.toml files as a user can have written them: ChibiConfig::load takes
\* whatever f32 toml::from_str parses and checks no range
EditedFiles ==
    [microphone_threshold : {-12, 12}, deadband_factor : {30, 150}, flicker_input : {FALSE}]

\* ------------------------------------------------------- capture_input
RECURSIVE SumSquares(_, _)
SumSquares(samples, i) ==
    IF i = 0 THEN Zero
    ELSE FAdd(SumSquares(samples, i - 1), FMul(samples[i], samples[i]))

\* fn rms_amplitude(samples: &[f32]) -> f32
rms_amplitude(samples) ==
    FSqrt(FDiv(SumSquares(samples, Len(samples)), FromInt(Len(samples))))

\* rms_amplitude tabulated over the buffers the callback can receive
RmsTable == [data \in AllBuffers |-> rms_amplitude(data)]

\* let rms = rms_amplitude(data);
Rms(data) == RmsTable[data]

\* let rms_threshold_on = config.microphone_threshold;
rms_threshold_on(cfg) == cfg.microphone_threshold

\* mutant: the deadband factor taken as the off level, without the product
rms_threshold_off_Unscaled(cfg) == cfg.deadband_factor

\* let rms_threshold_off = rms_threshold_on * config.deadband_factor;
rms_threshold_off(cfg) == FMul(rms_threshold_on(cfg), cfg.deadband_factor)

\* mutant: one threshold, the detector releases as soon as rms < on
Hysteresis_SingleThreshold(active, rms, on, off) ==
    IF active
    THEN (IF FLt(rms, on) THEN FALSE ELSE TRUE)
    ELSE (IF FGe(rms, on) THEN TRUE ELSE FALSE)

\* mutant: `rms <= rms_threshold_off` releases
Hysteresis_InclusiveOff(active, rms, on, off) ==
    IF active
    THEN (IF FLe(rms, off) THEN FALSE ELSE TRUE)
    ELSE (IF FGe(rms, on) THEN TRUE ELSE FALSE)

\* mutant: `rms > rms_threshold_on` activates
Hysteresis_StrictOn(active, rms, on, off) ==
    IF active
    THEN (IF FLt(rms, off) THEN FALSE ELSE TRUE)
    ELSE (IF FLt(on, rms) THEN TRUE ELSE FALSE)

\* mutant: `rms <= rms_threshold_on` activates
Hysteresis_InvertedOn(active, rms, on, off) ==
    IF active
    THEN (IF FLt(rms, off) THEN FALSE ELSE TRUE)
    ELSE (IF FLe(rms, on) THEN TRUE ELSE FALSE)

\* mutant: the release branch is missing
Hysteresis_NoRelease(active, rms, on, off) ==
    IF active
    THEN TRUE
    ELSE (IF FGe(rms, on) THEN TRUE ELSE FALSE)

\* mutant: an Inactive detector activates at the release level already
Hysteresis_ActivateAtOff(active, rms, on, off) ==
    IF active
    THEN (IF FLt(rms, off) THEN FALSE ELSE TRUE)
    ELSE (IF FGe(rms, off) THEN TRUE ELSE FALSE)

\* the value of mic_active after the if/else on the two thresholds
Hysteresis(active, rms, on, off) ==
    IF active
    THEN (IF FLt(rms, off) THEN FALSE ELSE TRUE)
    ELSE (IF FGe(rms, on) THEN TRUE ELSE FALSE)

\* mutant: the flicker branch sends a steady `true`
FlickerEvents_NoBlink(active, flicker) ==
    IF active THEN <<TRUE>> ELSE <<FALSE>>

\* mutant: the pair true,false is sent whatever flicker_input is
FlickerEvents_BlinkAlways(active, flicker) ==
    IF active THEN <<TRUE, FALSE>> ELSE <<FALSE>>

\* the events one callback of capture/mod.rs passes to try_send, in order
FlickerEvents(active, flicker) ==
    IF active
    THEN (IF flicker THEN <<TRUE, FALSE>> ELSE <<TRUE>>)
    ELSE <<FALSE>>

\* sample.max(-1.0).min(1.0), then (clamped * 32767.0) as i16
ToI16(sample) ==
    LET clamped == FMin(FMax(sample, FNeg(FromInt(1))), FromInt(1))
    IN AsI16(FMul(clamped, FromInt(32767)))

\* mutant: samples that convert to zero are left out
ToSamples_SkipSilence(data) ==
    SelectSeq([i \in 1..Len(data) |-> ToI16(data[i])], LAMBDA v : v # 0)

\* data.iter().map(..).collect::<Vec<i16>>()
ToSamples(data) == [i \in 1..Len(data) |-> ToI16(data[i])]

\* the conversion tabulated over the buffers the callback can receive
SamplesTable == [data \in AllBuffers |-> ToSamples(data)]

\* let samples: Vec<i16> = ...
Samples(data) == SamplesTable[data]

\* mutant: try_send on a channel that refuses every message
TrySendOk_Full(alive) == FALSE

\* Sender::try_send on the unbounded channel: Err(Closed) once every
\* receiver is gone, otherwise the message joins the back of the queue
TrySendOk(alive) == alive

\* mutant: the newest event is taken first
Enqueue_Lifo(q, v) == <<v>> \o q

\* mutant: a value equal to the newest queued one is coalesced with it
Enqueue_Coalesce(q, v) == IF q # <<>> /\ q[Len(q)] = v THEN q ELSE Append(q, v)

\* the channel is a FIFO queue
Enqueue(q, v) == Append(q, v)

\* ------------------------------------------------------------------ state
VARIABLES
    impl,            \* which capture implementation the build links
    config,          \* ChibiApp.config: the shared Arc<Mutex<ChibiConfig>>
    snapshot,        \* the ChibiConfig cloned by spawn_capture_thread (capture.rs, mic_capture.rs)
    config_toml,     \* contents of config.toml
    config_lock,     \* holder of the config mutex: "free", "audio" or "ui"
    pc,              \* position of the audio callback: "idle", "sleep", or a lock request
    audio,           \* capture thread and its stream: "spawned", "running", "failed"
                     \* (setup error) or "panicked" (the callback panicked)
    mic_active,      \* `let mut mic_active` captured by the callback closure
    buffer,          \* the Arc<Mutex<Vec<i16>>> accumulation buffer
    cb,              \* the latest callback: data, rms, config read, mic_active on entry,
                     \* number of events sent before it
    queue,           \* messages in the async_channel
    receiver_alive,  \* some Receiver of the channel still exists
    ui,              \* main thread: "starting", "running", "panicked" or "exited"
    images,          \* number of handles in ChibiApp.images
    mic_activated,   \* ChibiApp.mic_activated
    curr_image,      \* ChibiApp.curr_image: -1 for None, else the image index
    ncb,             \* callbacks started
    emitted,         \* history: every event passed to a send, in order
    enqueued,        \* history: every event the channel accepted, in order
    handled,         \* history: payload of every MicActive given to update, in order
    run,             \* history: what held at every callback so far
    nreconf,         \* settings messages handled
    mono,            \* the two detectors of the threshold comparison
    stderr,          \* history: for every line err_fn printed, the number of callbacks
                     \* started before it
    screen,          \* ChibiApp: curr_view, show_buttons, show_modal, chroma_key,
                     \* selected_input_device
    buffer_lock,     \* holder of the accumulation buffer's mutex: "free" or "audio"
    inbox            \* what the main thread is working on: kind "none", or a message or
                     \* view call that waits for ("lock") or holds ("body") the config mutex

vars ==
    <<impl, config, snapshot, config_toml, config_lock, pc, audio, mic_active, buffer, cb,
      queue, receiver_alive, ui, images, mic_activated, curr_image, ncb, emitted, enqueued,
      handled, run, nreconf, mono, stderr, screen,
                   buffer_lock, inbox>>

detector_vars == <<impl, config, snapshot, config_toml, config_lock, pc, audio, mic_active,
                   buffer, cb, queue, receiver_alive, ui, images, mic_activated, curr_image,
                   ncb, emitted, enqueued, handled, run, nreconf, stderr, screen,
                   buffer_lock, inbox>>

\* View
Views == {"Home", "Settings", "About"}

\* the entries of available_input_devices
InputDevices == {"default", "usb"}

\* impl Default for ChibiApp, the fields of the window
DefaultScreen ==
    [curr_view |-> "Home", show_buttons |-> TRUE, show_modal |-> FALSE,
     chroma_key |-> FALSE, selected_input_device |-> "default"]

\* the main thread is between two calls of update and view
NoWork == [kind |-> "none", flag |-> FALSE, view |-> "Home", at |-> "idle"]

\* number of files load_images can have found in the assets directory
ImageCounts == 0..2

MonoIdle ==
    [t1 |-> Zero, t2 |-> Zero, d |-> Zero, a1 |-> FALSE, a2 |-> FALSE, n |-> 0, rms |-> Zero]

\* main: ChibiApp::new, load of config.toml, load_images, spawn of the
\* capture thread with mic_active = false and an empty buffer; the main
\* thread is in state u and the capture thread in state a
InitAt(files, counts, u, a) ==
    /\ impl \in Impls
    /\ config_toml \in files
    /\ config = Deserialize(config_toml)
    /\ snapshot = config
    /\ config_lock = "free"
    /\ pc = "idle"
    /\ audio = a
    /\ mic_active = FALSE
    /\ buffer = <<>>
    /\ cb = [data |-> <<>>, rms |-> Zero, cfg |-> config, was_active |-> FALSE, base |-> 0]
    /\ queue = <<>>
    /\ receiver_alive = TRUE
    /\ ui = u
    /\ images \in counts
    /\ mic_activated = FALSE
    /\ curr_image = -1
    /\ ncb = 0
    /\ emitted = <<>>
    /\ enqueued = <<>>
    /\ handled = <<>>
    /\ run = [above |-> TRUE, flick_on |-> TRUE, flick_off |-> TRUE]
    /\ nreconf = 0
    /\ stderr = <<>>
    /\ screen = DefaultScreen
    /\ buffer_lock = "free"
    /\ inbox = NoWork

\* the stream plays and the first frame has been drawn
InitWith(files, counts) == InitAt(files, counts, "running", "running")

\* main.rs:39-57: the capture thread has just been spawned and the main
\* thread is about to call run_with
Init == InitAt(SavedFiles, ImageCounts, "starting", "spawned") /\ mono = MonoIdle

\* the process is alive: a panic of update on the main thread ends it
ProcessAlive == ui # "panicked"

\* history kept for one more callback that read cfg and computed rms
RunAfter(cfg, rms) ==
    [above     |-> run.above /\ FGe(rms, rms_threshold_on(cfg)),
     flick_on  |-> run.flick_on /\ cfg.flicker_input,
     flick_off |-> run.flick_off /\ ~cfg.flicker_input]

\* results of build_input_stream followed by stream.play()
SetupOutcomes == {"ok", "build_error", "play_error"}

\* the closure of std::thread::spawn: capture_input(..).expect(..) and
\* stream.play().expect(..).  A failed expect panics this thread only.
StreamSetup(outcome) ==
    /\ audio = "spawned" /\ ProcessAlive
    /\ audio' = IF outcome = "ok" THEN "running" ELSE "failed"
    /\ UNCHANGED <<impl, config, snapshot, config_toml, config_lock, pc, mic_active, buffer,
                   cb, queue, receiver_alive, ui, images, mic_activated, curr_image, ncb,
                   emitted, enqueued, handled, run, nreconf, mono, stderr, screen,
                   buffer_lock, inbox>>

\* mutant: the handler panics and takes the stream down
err_fn_Panic(log, at) == [stderr |-> Append(log, at), audio |-> "panicked"]

\* let err_fn = |err| eprintln!("Error in audio stream: {}", err): one more
\* line on stderr; the closure captures nothing and the stream goes on
err_fn(log, at) == [stderr |-> Append(log, at), audio |-> "running"]

\* the platform reports a stream error and cpal calls err_fn
StreamError ==
    /\ audio = "running" /\ ProcessAlive
    /\ Len(stderr) < MaxErrors
    /\ LET after == err_fn(stderr, ncb)
       IN /\ stderr' = after.stderr
          /\ audio' = after.audio
    /\ UNCHANGED <<impl, config, snapshot, config_toml, config_lock, pc, mic_active, buffer,
                   cb, queue, receiver_alive, ui, images, mic_activated, curr_image, ncb,
                   emitted, enqueued, handled, run, nreconf, mono, screen, buffer_lock,
                   inbox>>

\* capture/mod.rs:156-208 up to the flicker sleep, or to the end of the
\* closure when there is no sleep.  The MutexGuard `config` lives until
\* the closure returns.
CaptureModBegin(data) ==
    /\ impl = "capture_mod" /\ audio = "running" /\ ProcessAlive
    /\ pc = "idle" /\ config_lock = "free"
    /\ LET rms    == Rms(data)
           active == Hysteresis(mic_active, rms, rms_threshold_on(config), rms_threshold_off(config))
           events == FlickerEvents(active, config.flicker_input)
           ok     == TrySendOk(receiver_alive)
       IN /\ mic_active' = active
          /\ cb' = [data |-> data, rms |-> rms, cfg |-> config, was_active |-> mic_active,
                    base |-> Len(emitted)]
          /\ run' = RunAfter(config, rms)
          /\ emitted' = Append(emitted, events[1])
          /\ queue' = IF ok THEN Enqueue(queue, events[1]) ELSE queue
          /\ enqueued' = IF ok THEN Append(enqueued, events[1]) ELSE enqueued
          /\ IF Len(events) = 2
             THEN /\ pc' = "sleep"
                  /\ config_lock' = "audio"
                  /\ UNCHANGED buffer
             ELSE /\ pc' = "idle"
                  /\ config_lock' = "free"
                  /\ buffer' = IF active THEN buffer \o Samples(data) ELSE buffer
    /\ ncb' = ncb + 1
    /\ UNCHANGED <<impl, config, snapshot, config_toml, audio, receiver_alive, ui, images,
                   mic_activated, curr_image, handled, nreconf, mono, stderr, screen,
                   buffer_lock, inbox>>

\* capture/mod.rs:183-208: the sleep ends, try_send(false), the samples
\* are appended and the closure returns, dropping the config guard
CaptureModWake ==
    /\ impl = "capture_mod" /\ audio = "running" /\ ProcessAlive
    /\ pc = "sleep"
    /\ LET events == FlickerEvents(mic_active, cb.cfg.flicker_input)
           ok     == TrySendOk(receiver_alive)
       IN /\ emitted' = Append(emitted, events[2])
          /\ queue' = IF ok THEN Enqueue(queue, events[2]) ELSE queue
          /\ enqueued' = IF ok THEN Append(enqueued, events[2]) ELSE enqueued
    /\ buffer' = IF mic_active THEN buffer \o Samples(cb.data) ELSE buffer
    /\ pc' = "idle"
    /\ config_lock' = "free"
    /\ UNCHANGED <<impl, config, snapshot, config_toml, audio, mic_active, cb, receiver_alive,
                   ui, images, mic_activated, curr_image, ncb, handled, run, nreconf, mono, stderr, screen,
                   buffer_lock, inbox>>

\* capture.rs:182-217 and mic_capture.rs:34-69: the closure owns a clone of
\* the configuration and sends with send_blocking(..).unwrap()
SnapshotCallback(data) ==
    /\ audio = "running" /\ ProcessAlive
    /\ pc = "idle"
    /\ LET rms    == Rms(data)
           active == Hysteresis(mic_active, rms, rms_threshold_on(snapshot), rms_threshold_off(snapshot))
       IN /\ mic_active' = active
          /\ cb' = [data |-> data, rms |-> rms, cfg |-> snapshot, was_active |-> mic_active,
                    base |-> Len(emitted)]
          /\ run' = RunAfter(snapshot, rms)
          /\ emitted' = Append(emitted, active)
          /\ IF receiver_alive
             THEN /\ queue' = Enqueue(queue, active)
                  /\ enqueued' = Append(enqueued, active)
                  /\ buffer' = IF active THEN buffer \o Samples(data) ELSE buffer
                  /\ UNCHANGED audio
             ELSE /\ audio' = "panicked"
                  /\ UNCHANGED <<queue, enqueued, buffer>>
    /\ ncb' = ncb + 1
    /\ UNCHANGED <<impl, config, snapshot, config_toml, config_lock, pc, receiver_alive, ui,
                   images, mic_activated, curr_image, handled, nreconf, mono, stderr, screen,
                   buffer_lock, inbox>>

CaptureCallback(data) == impl = "capture" /\ SnapshotCallback(data)

MicCaptureCallback(data) == impl = "mic_capture" /\ SnapshotCallback(data)

\* ----------------------------------------------------------------- app.rs
\* ChibiApp::get_image(index).unwrap() succeeds
HasImage(index) == index < images

\* main.rs:49-57: run_with boots the application and draws the first frame;
\* view_home evaluates self.get_image(0).unwrap() whatever curr_image is
RunWith ==
    /\ ui = "starting"
    /\ ui' = IF HasImage(0) THEN "running" ELSE "panicked"
    /\ UNCHANGED <<impl, config, snapshot, config_toml, config_lock, pc, audio, mic_active,
                   buffer, cb, queue, receiver_alive, images, mic_activated, curr_image, ncb,
                   emitted, enqueued, handled, run, nreconf, mono, stderr, screen,
                   buffer_lock, inbox>>

\* update locks the configuration before it looks at the message
CanUpdate == ui = "running" /\ config_lock = "free"

\* mutant: the two images are swapped
ImageIndex_Swapped(active) == IF active THEN 0 ELSE 1

\* the image update shows for a payload: get_image(1) for true, get_image(0)
\* for false, app.rs:302-306
ImageIndex(active) == IF active THEN 1 ELSE 0

\* the stream task of main.rs:47 takes the oldest event and update handles
\* Message::MicActive(active), app.rs:301-309
UpdateMicActive ==
    /\ CanUpdate
    /\ receiver_alive /\ queue # <<>>
    /\ LET active == Head(queue)
           index  == ImageIndex(active)
       IN /\ queue' = Tail(queue)
          /\ handled' = Append(handled, active)
          /\ IF HasImage(index)
             THEN /\ curr_image' = index
                  /\ mic_activated' = active
                  /\ UNCHANGED ui
             ELSE /\ ui' = "panicked"
                  /\ UNCHANGED <<curr_image, mic_activated>>
    /\ UNCHANGED <<impl, config, snapshot, config_toml, config_lock, pc, audio, mic_active,
                   buffer, cb, receiver_alive, images, ncb, emitted, enqueued, run, nreconf,
                   mono, stderr, screen,
                   buffer_lock, inbox>>

\* mutant: saving the configuration also resets the detector
WriteConfig_ResetDetector(c) ==
    /\ config' = c
    /\ config_toml' = Serialize(c)
    /\ nreconf' = nreconf + 1
    /\ mic_active' = FALSE
    /\ UNCHANGED <<impl, snapshot, config_lock, pc, audio, buffer, cb, queue,
                   receiver_alive, ui, images, mic_activated, curr_image, ncb, emitted,
                   enqueued, handled, run, mono, stderr, screen, buffer_lock, inbox>>

\* the write of one field followed by config.save()
WriteConfig(c) ==
    /\ config' = c
    /\ config_toml' = Serialize(c)
    /\ nreconf' = nreconf + 1
    /\ UNCHANGED <<impl, snapshot, config_lock, pc, audio, mic_active, buffer, cb, queue,
                   receiver_alive, ui, images, mic_activated, curr_image, ncb, emitted,
                   enqueued, handled, run, mono, stderr, screen,
                   buffer_lock, inbox>>

\* Message::ThresholdChanged((value * 100.0).round() / 100.0), app.rs:310-313
UpdateThresholdChanged(h) ==
    /\ CanUpdate
    /\ Dec(h) # config.microphone_threshold
    /\ WriteConfig([config EXCEPT !.microphone_threshold = Dec(h)])

\* Message::DeadbandChanged, app.rs:314-317
UpdateDeadbandChanged(h) ==
    /\ CanUpdate
    /\ Dec(h) # config.deadband_factor
    /\ WriteConfig([config EXCEPT !.deadband_factor = Dec(h)])

\* Message::FlickerChanged from the toggler, app.rs:325-328
UpdateFlickerChanged ==
    /\ CanUpdate
    /\ WriteConfig([config EXCEPT !.flicker_input = ~config.flicker_input])

\* a message that touches neither the configuration nor the display state
OtherMessage(scr) ==
    /\ CanUpdate
    /\ screen' = scr
    /\ UNCHANGED <<impl, config, snapshot, config_toml, config_lock, pc, audio, mic_active,
                   buffer, cb, queue, receiver_alive, ui, images, mic_activated, curr_image,
                   ncb, emitted, enqueued, handled, run, nreconf, mono, stderr, buffer_lock,
                   inbox>>

\* Message::SwitchView(view), app.rs:318-320
UpdateSwitchView(view) ==
    /\ view # screen.curr_view
    /\ OtherMessage([screen EXCEPT !.curr_view = view])

\* Message::InputChanged(device), app.rs:321-324
UpdateInputChanged(device) ==
    OtherMessage([screen EXCEPT !.selected_input_device = device, !.show_modal = TRUE])

\* keys the window can report
Keys == {"Escape", "c", "x"}

\* Message::AppEvent(KeyPressed { key, .. }), app.rs:329-341
UpdateAppEvent(key) ==
    OtherMessage(IF key = "Escape" THEN [screen EXCEPT !.show_buttons = ~screen.show_buttons]
                 ELSE IF key = "c" THEN [screen EXCEPT !.chroma_key = ~screen.chroma_key]
                 ELSE screen)

\* the window closes: iced's run_with returns and the application, with
\* every Receiver it holds, is dropped while the capture thread still runs
Shutdown ==
    /\ ui = "running"
    /\ ui' = "exited"
    /\ receiver_alive' = FALSE
    /\ UNCHANGED <<impl, config, snapshot, config_toml, config_lock, pc, audio, mic_active,
                   buffer, cb, queue, images, mic_activated, curr_image, ncb, emitted,
                   enqueued, handled, run, nreconf, mono, stderr, screen,
                   buffer_lock, inbox>>

Next ==
    \/ \E outcome \in SetupOutcomes : StreamSetup(outcome)
    \/ RunWith
    \/ \E data \in Buffers : ncb < MaxCallbacks /\ CaptureModBegin(data)
    \/ CaptureModWake
    \/ \E data \in Buffers : ncb < MaxCallbacks /\ CaptureCallback(data)
    \/ \E data \in Buffers : ncb < MaxCallbacks /\ MicCaptureCallback(data)
    \/ UpdateMicActive
    \/ \E h \in ThresholdSteps : nreconf < MaxReconfigs /\ UpdateThresholdChanged(h)
    \/ \E h \in DeadbandSteps : nreconf < MaxReconfigs /\ UpdateDeadbandChanged(h)
    \/ nreconf < MaxReconfigs /\ UpdateFlickerChanged
    \/ Shutdown

Spec == Init /\ [][Next]_vars

\* the program with the flicker toggle as its only setting, when the
\* executor keeps polling the event stream and calling update, run_with
\* gets to draw the first frame, and the flicker sleep of 30..=100 ms ends
NextDelivery ==
    \/ \E outcome \in SetupOutcomes : StreamSetup(outcome)
    \/ RunWith
    \/ \E data \in Buffers : ncb < MaxCallbacks /\ CaptureModBegin(data)
    \/ CaptureModWake
    \/ \E data \in Buffers : ncb < MaxCallbacks /\ CaptureCallback(data)
    \/ \E data \in Buffers : ncb < MaxCallbacks /\ MicCaptureCallback(data)
    \/ UpdateMicActive
    \/ nreconf < MaxReconfigs /\ UpdateFlickerChanged
    \/ Shutdown

\* saved files with a positive deadband, so that the detector also releases
DeliveryFiles == { f \in SavedFiles : f.deadband_factor > 0 }

InitDelivery ==
    InitAt(DeliveryFiles, ImageCounts, "starting", "spawned") /\ mono = MonoIdle

FairSpec ==
    /\ InitDelivery /\ [][NextDelivery]_vars
    /\ WF_vars(RunWith)
    /\ WF_vars(CaptureModWake)
    /\ WF_vars(UpdateMicActive)

\* ------------------------------------- the two threads, lock by lock
\* mutant: the guard of the configuration is never dropped
GuardScope_Leaked(at) == "audio"

\* mutant: the guard is dropped once the thresholds have been read
GuardScope_Snapshot(at) == IF at = "lock_config" THEN "audio" ELSE "free"

\* `let config = lock_and_unlock!(config)` at the top of the closure of
\* capture/mod.rs: the holder of the configuration mutex when the closure
\* stands at `at`.  The guard is a local of the closure and is dropped
\* when the closure returns.
GuardScope(at) == IF at = "idle" THEN "free" ELSE "audio"

\* saved files with which the detector both activates and releases
LockFiles == { f \in SavedFiles : f.microphone_threshold > 0 /\ f.deadband_factor > 0 }

\* the configurations the flicker toggle makes of them
LockConfigs == { [Deserialize(f) EXCEPT !.flicker_input = b] : f \in LockFiles, b \in BOOLEAN }

\* a silent and a loud buffer
LockBuffers == { Buf(<<0, 0>>), Buf(<<30, -150>>) }

\* capture/mod.rs:162-176 tabulated: mic_active after the callback that
\* entered with `active`, received data and read cfg
DetectTable ==
    [active \in BOOLEAN, data \in LockBuffers, cfg \in LockConfigs |->
        Hysteresis(active, Rms(data), rms_threshold_on(cfg), rms_threshold_off(cfg))]

Detect(active, data, cfg) == DetectTable[active, data, cfg]

\* cpal calls the closure with a buffer; its first statement asks for the
\* configuration mutex
CallbackEnter(data) ==
    /\ impl = "capture_mod" /\ audio = "running" /\ ProcessAlive
    /\ pc = "idle"
    /\ pc' = "lock_config"
    /\ cb' = [data |-> data, rms |-> Rms(data), cfg |-> cb.cfg, was_active |-> mic_active,
              base |-> Len(emitted)]
    /\ ncb' = ncb + 1
    /\ UNCHANGED <<impl, config, snapshot, config_toml, config_lock, audio, mic_active,
                   buffer, queue, receiver_alive, ui, images, mic_activated, curr_image,
                   emitted, enqueued, handled, run, nreconf, mono, stderr, screen,
                   buffer_lock, inbox>>

\* capture/mod.rs:157-190 up to the sleep, the buffer lock or the early
\* return: the mutex is granted, the detector decides and the first event
\* is passed to try_send
CallbackLockConfig ==
    /\ impl = "capture_mod" /\ audio = "running" /\ ProcessAlive
    /\ pc = "lock_config" /\ config_lock = "free"
    /\ LET active == Detect(mic_active, cb.data, config)
           events == FlickerEvents(active, config.flicker_input)
           ok     == TrySendOk(receiver_alive)
           at     == IF Len(events) = 2 THEN "sleep"
                     ELSE IF active THEN "lock_buffer" ELSE "idle"
       IN /\ mic_active' = active
          /\ cb' = [cb EXCEPT !.cfg = config]
          /\ run' = RunAfter(config, cb.rms)
          /\ emitted' = Append(emitted, events[1])
          /\ queue' = IF ok THEN Enqueue(queue, events[1]) ELSE queue
          /\ enqueued' = IF ok THEN Append(enqueued, events[1]) ELSE enqueued
          /\ pc' = at
          /\ config_lock' = GuardScope(at)
    /\ UNCHANGED <<impl, config, snapshot, config_toml, audio, buffer, receiver_alive, ui,
                   images, mic_activated, curr_image, ncb, handled, nreconf, mono, stderr,
                   screen, buffer_lock, inbox>>

\* capture/mod.rs:183-185: the sleep ends and try_send(false) follows
CallbackWake ==
    /\ impl = "capture_mod" /\ audio = "running" /\ ProcessAlive
    /\ pc = "sleep"
    /\ LET events == FlickerEvents(mic_active, cb.cfg.flicker_input)
           ok     == TrySendOk(receiver_alive)
       IN /\ emitted' = Append(emitted, events[2])
          /\ queue' = IF ok THEN Enqueue(queue, events[2]) ELSE queue
          /\ enqueued' = IF ok THEN Append(enqueued, events[2]) ELSE enqueued
    /\ pc' = "lock_buffer"
    /\ UNCHANGED <<impl, config, snapshot, config_toml, config_lock, audio, mic_active,
                   buffer, cb, receiver_alive, ui, images, mic_activated, curr_image, ncb,
                   handled, run, nreconf, mono, stderr, screen, buffer_lock, inbox>>

\* capture/mod.rs:206: `let mut buf = buffer.lock().unwrap()` is granted
CallbackLockBuffer ==
    /\ impl = "capture_mod" /\ audio = "running" /\ ProcessAlive
    /\ pc = "lock_buffer" /\ buffer_lock = "free"
    /\ buffer_lock' = "audio"
    /\ pc' = "append"
    /\ UNCHANGED <<impl, config, snapshot, config_toml, config_lock, audio, mic_active,
                   buffer, cb, queue, receiver_alive, ui, images, mic_activated, curr_image,
                   ncb, emitted, enqueued, handled, run, nreconf, mono, stderr, screen,
                   inbox>>

\* capture/mod.rs:207-208: extend_from_slice, then the closure returns and
\* both guards are dropped
CallbackAppend ==
    /\ impl = "capture_mod" /\ audio = "running" /\ ProcessAlive
    /\ pc = "append"
    /\ buffer' = buffer \o Samples(cb.data)
    /\ buffer_lock' = "free"
    /\ pc' = "idle"
    /\ config_lock' = GuardScope("idle")
    /\ UNCHANGED <<impl, config, snapshot, config_toml, audio, mic_active, cb, queue,
                   receiver_alive, ui, images, mic_activated, curr_image, ncb, emitted,
                   enqueued, handled, run, nreconf, mono, stderr, screen, inbox>>

\* main.rs:47: the stream task takes the oldest event off the channel and
\* the runtime calls update(Message::MicActive(active)), whose first
\* statement asks for the configuration mutex.  The runtime hands update
\* one message at a time, in the order of the stream.
StreamRecv ==
    /\ ui = "running" /\ receiver_alive
    /\ inbox.kind = "none" /\ queue # <<>>
    /\ inbox' = [kind |-> "MicActive", flag |-> Head(queue), view |-> "Home", at |-> "lock"]
    /\ queue' = Tail(queue)
    /\ UNCHANGED <<impl, config, snapshot, config_toml, config_lock, pc, audio, mic_active,
                   buffer, cb, receiver_alive, ui, images, mic_activated, curr_image, ncb,
                   emitted, enqueued, handled, run, nreconf, mono, stderr, screen,
                   buffer_lock>>

\* the window hands update a FlickerChanged message or the SwitchView of
\* the Settings button
WindowMessages ==
    [kind : {"FlickerChanged"}, flag : BOOLEAN, view : {"Home"}, at : {"lock"}]
    \cup [kind : {"SwitchView"}, flag : {FALSE}, view : {"Settings"}, at : {"lock"}]

UpdateCalled(message) ==
    /\ ui = "running"
    /\ inbox.kind = "none"
    /\ inbox' = message
    /\ UNCHANGED <<impl, config, snapshot, config_toml, config_lock, pc, audio, mic_active,
                   buffer, cb, queue, receiver_alive, ui, images, mic_activated, curr_image,
                   ncb, emitted, enqueued, handled, run, nreconf, mono, stderr, screen,
                   buffer_lock>>

\* after update the runtime calls ChibiApp::view; on the settings view,
\* view_settings asks for the configuration mutex, app.rs:186-187
ViewCalled(scr) ==
    IF scr.curr_view = "Settings"
    THEN [kind |-> "view_settings", flag |-> FALSE, view |-> "Settings", at |-> "lock"]
    ELSE NoWork

\* app.rs:298 and app.rs:187: lock_and_unlock!(self.config) is granted
UiLockConfig ==
    /\ ui = "running"
    /\ inbox.at = "lock" /\ config_lock = "free"
    /\ config_lock' = "ui"
    /\ inbox' = [inbox EXCEPT !.at = "body"]
    /\ UNCHANGED <<impl, config, snapshot, config_toml, pc, audio, mic_active, buffer, cb,
                   queue, receiver_alive, ui, images, mic_activated, curr_image, ncb,
                   emitted, enqueued, handled, run, nreconf, mono, stderr, screen,
                   buffer_lock>>

\* the match of update, app.rs:300-342, or the rest of view_settings; the
\* guard is dropped when the function returns, and view follows update
UiBody ==
    /\ ui = "running"
    /\ inbox.at = "body"
    /\ config_lock' = "free"
    /\ IF inbox.kind = "MicActive"
       THEN /\ handled' = Append(handled, inbox.flag)
            /\ IF HasImage(ImageIndex(inbox.flag))
               THEN /\ curr_image' = ImageIndex(inbox.flag)
                    /\ mic_activated' = inbox.flag
                    /\ UNCHANGED ui
               ELSE /\ ui' = "panicked"
                    /\ UNCHANGED <<curr_image, mic_activated>>
       ELSE UNCHANGED <<handled, curr_image, mic_activated, ui>>
    /\ IF inbox.kind = "FlickerChanged"
       THEN /\ config' = [config EXCEPT !.flicker_input = inbox.flag]
            /\ config_toml' = Serialize(config')
            /\ nreconf' = nreconf + 1
       ELSE UNCHANGED <<config, config_toml, nreconf>>
    /\ screen' = IF inbox.kind = "SwitchView" THEN [screen EXCEPT !.curr_view = inbox.view]
                 ELSE screen
    /\ inbox' = IF inbox.kind = "view_settings" THEN NoWork ELSE ViewCalled(screen')
    /\ UNCHANGED <<impl, snapshot, pc, audio, mic_active, buffer, cb, queue, receiver_alive,
                   images, ncb, emitted, enqueued, run, mono, stderr, buffer_lock>>

InitLocks ==
    /\ InitWith(LockFiles, {1, 2})
    /\ impl = "capture_mod"
    /\ mono = MonoIdle

NextLocks ==
    \/ \E data \in LockBuffers : ncb < MaxCallbacks /\ CallbackEnter(data)
    \/ CallbackLockConfig
    \/ CallbackWake
    \/ CallbackLockBuffer
    \/ CallbackAppend
    \/ StreamRecv
    \/ \E message \in WindowMessages :
            /\ message.kind = "FlickerChanged" => nreconf < MaxReconfigs
            /\ message.kind = "SwitchView" => message.view # screen.curr_view
            /\ UpdateCalled(message)
    \/ UiLockConfig
    \/ UiBody

\* the two threads when the flicker sleep ends, a thread that can run does
\* run, and a thread that waits for a mutex gets it when it is free again
\* and again
SpecLocks ==
    /\ InitLocks /\ [][NextLocks]_vars
    /\ WF_vars(CallbackWake)
    /\ WF_vars(CallbackAppend)
    /\ WF_vars(UiBody)
    /\ SF_vars(CallbackLockConfig)
    /\ SF_vars(CallbackLockBuffer)
    /\ SF_vars(UiLockConfig)

\* a playing stream that also reports errors
InitErrors == InitWith(SavedFiles, {2}) /\ mono = MonoIdle

NextErrors ==
    \/ \E data \in Buffers : ncb < MaxCallbacks /\ CaptureModBegin(data)
    \/ CaptureModWake
    \/ \E data \in Buffers : ncb < MaxCallbacks /\ CaptureCallback(data)
    \/ \E data \in Buffers : ncb < MaxCallbacks /\ MicCaptureCallback(data)
    \/ UpdateMicActive
    \/ StreamError

SpecErrors == InitErrors /\ [][NextErrors]_vars

\* the program started on any config.toml, saved or edited
InitLoad == InitWith(SavedFiles \cup EditedFiles, {2}) /\ mono = MonoIdle

NextLoad ==
    \/ \E data \in Buffers : ncb < MaxCallbacks /\ CaptureModBegin(data)
    \/ CaptureModWake
    \/ \E data \in Buffers : ncb < MaxCallbacks /\ CaptureCallback(data)
    \/ \E data \in Buffers : ncb < MaxCallbacks /\ MicCaptureCallback(data)
    \/ UpdateMicActive
    \/ \E h \in ThresholdSteps : nreconf < MaxReconfigs /\ UpdateThresholdChanged(h)
    \/ \E h \in DeadbandSteps : nreconf < MaxReconfigs /\ UpdateDeadbandChanged(h)

SpecLoad == InitLoad /\ [][NextLoad]_vars

\* the window with all its messages as main.rs sets it up: the default
\* configuration, fed by the detection thread of mic_capture
InitUi ==
    /\ InitWith({Serialize(DefaultConfig)}, {1, 2})
    /\ impl = "mic_capture"
    /\ mono = MonoIdle

NextUi ==
    \/ \E data \in LockBuffers : ncb < MaxCallbacks /\ MicCaptureCallback(data)
    \/ UpdateMicActive
    \/ \E h \in ThresholdSteps : nreconf < MaxReconfigs /\ UpdateThresholdChanged(h)
    \/ \E h \in DeadbandSteps : nreconf < MaxReconfigs /\ UpdateDeadbandChanged(h)
    \/ nreconf < MaxReconfigs /\ UpdateFlickerChanged
    \/ \E view \in Views : UpdateSwitchView(view)
    \/ \E device \in InputDevices : UpdateInputChanged(device)
    \/ \E key \in Keys : UpdateAppEvent(key)

SpecUi == InitUi /\ [][NextUi]_vars

TypeOK ==
    /\ impl \in Impls
    /\ config_lock \in {"free", "audio", "ui"}
    /\ pc \in {"idle", "lock_config", "sleep", "lock_buffer", "append"}
    /\ audio \in {"spawned", "running", "failed", "panicked"}
    /\ mic_active \in BOOLEAN
    /\ ui \in {"starting", "running", "panicked", "exited"}
    /\ curr_image \in -1..1
    /\ ncb \in Nat
    /\ Len(queue) <= Len(enqueued)
    /\ screen.curr_view \in Views
    /\ screen.selected_input_device \in InputDevices
    /\ buffer_lock \in {"free", "audio"}
    /\ inbox.at \in {"idle", "lock", "body"}

\* ------------------------------------------------ the six-buffer scenario
\* the buffers whose RMS is the i-th one of the scenario
ScenarioInputs ==
    [i \in 1..Len(ScenarioRms) |->
        { data \in ScenarioBuffers : FEq(Rms(data), Dec(ScenarioRms[i])) }]

\* data is a buffer whose RMS is the next one of the scenario
ScenarioStep(data) ==
    /\ ncb < Len(ScenarioRms)
    /\ data \in ScenarioInputs[ncb + 1]

InitScenario == InitWith({ScenarioFile}, {2}) /\ mono = MonoIdle

NextScenario ==
    \/ \E data \in ScenarioBuffers : ScenarioStep(data) /\ CaptureModBegin(data)
    \/ \E data \in ScenarioBuffers : ScenarioStep(data) /\ CaptureCallback(data)
    \/ \E data \in ScenarioBuffers : ScenarioStep(data) /\ MicCaptureCallback(data)
    \/ UpdateMicActive

SpecScenario == InitScenario /\ [][NextScenario]_vars

\* --------------------------- two detectors on one input, thresholds t1 <= t2
MonoThresholds == { Dec(h) : h \in {0, 12, 30, 50, 100} }

MonoDeadbands == { Dec(h) : h \in {0, 50, 100} }

MonoConfig(t, d) == [microphone_threshold |-> t, deadband_factor |-> d, flicker_input |-> FALSE]

InitMono ==
    /\ InitWith({Serialize(DefaultConfig)}, {2})
    /\ impl = "capture_mod"
    /\ \E t1 \in MonoThresholds, t2 \in MonoThresholds, d \in MonoDeadbands :
          /\ FLe(t1, t2)
          /\ mono = [MonoIdle EXCEPT !.t1 = t1, !.t2 = t2, !.d = d]

\* both detectors run lines 162-175 of capture/mod.rs on the same buffer
MonoFrame(data) ==
    /\ mono.n < MaxFrames
    /\ LET rms == Rms(data)
           c1  == MonoConfig(mono.t1, mono.d)
           c2  == MonoConfig(mono.t2, mono.d)
       IN mono' = [mono EXCEPT
                     !.a1  = Hysteresis(mono.a1, rms, rms_threshold_on(c1), rms_threshold_off(c1)),
                     !.a2  = Hysteresis(mono.a2, rms, rms_threshold_on(c2), rms_threshold_off(c2)),
                     !.n   = mono.n + 1,
                     !.rms = rms]
    /\ UNCHANGED detector_vars

NextMono == \E data \in Buffers : MonoFrame(data)

SpecMono == InitMono /\ [][NextMono]_vars

\* ------------------------------------------------- vocabulary of the claims
One == FromInt(1)

InUnit(x) == FGe(x, Zero) /\ FLe(x, One)

\* some callback has run; cb describes the latest one
Called == ncb > 0

\* `let rms = rms_amplitude(data)` of the latest callback
LastRms == cb.rms

LastOn == cb.cfg.microphone_threshold

LastDeadband == cb.cfg.deadband_factor

LastOff == FMul(cb.cfg.microphone_threshold, cb.cfg.deadband_factor)

\* the events the latest callback has passed to a send so far
LastEvents == SubSeq(emitted, cb.base + 1, Len(emitted))

AllZero(data) == Len(data) > 0 /\ \A i \in 1..Len(data) : data[i] = Zero

ConstantAmplitude(data) ==
    Len(data) > 0 /\ \A i \in 1..Len(data) : FAbs(data[i]) = FAbs(data[1])

Amplitude(data) == FAbs(data[1])

IsPrefix(a, b) == Len(a) <= Len(b) /\ SubSeq(b, 1, Len(a)) = a

Alternating(seq) == \A i \in 1..Len(seq) : seq[i] = (i % 2 = 1)

\* ------------------------------------------------------------------ claims

\* C1: with threshold and deadband_factor in [0,1], a callback whose RMS r
\* satisfies threshold*deadband_factor <= r < threshold leaves mic_active
\* as it was on entry.
C1_HysteresisHold ==
    (/\ Called
     /\ InUnit(LastOn) /\ InUnit(LastDeadband)
     /\ FLe(LastOff, LastRms) /\ FLt(LastRms, LastOn))
    => mic_active = cb.was_active

\* an Active detector has just held through an RMS strictly inside the band
C1_Witness ==
    /\ Called /\ cb.was_active /\ mic_active
    /\ FLt(LastOff, LastRms) /\ FLt(LastRms, LastOn)

\* C2: with threshold in (0,1], a buffer of constant amplitude a processed
\* while Inactive leaves the detector Active iff a >= threshold.
C2_ConstantAmplitudeActivation ==
    (/\ Called /\ ~cb.was_active
     /\ ConstantAmplitude(cb.data)
     /\ FLt(Zero, LastOn) /\ FLe(LastOn, One))
    => (mic_active <=> FGe(Amplitude(cb.data), LastOn))

\* C3: in each capture implementation, an Active detector becomes Inactive
\* in the callback whose RMS is strictly below threshold*deadband_factor and
\* stays Active when the RMS equals threshold*deadband_factor.
C3_StrictDeactivation ==
    \A i \in Impls :
        (impl = i /\ Called /\ cb.was_active)
        => /\ FLt(LastRms, LastOff) => ~mic_active
           /\ FEq(LastRms, LastOff) => mic_active

\* an Active detector of mic_capture.rs met an RMS equal to a positive off level
C3_Witness ==
    /\ impl = "mic_capture" /\ Called /\ cb.was_active
    /\ FEq(LastRms, LastOff) /\ FLt(Zero, LastOff)
    /\ mic_active

\* C5 as stated: for every threshold and deadband_factor in [0,1], a callback
\* on an all-zero buffer leaves the detector Inactive and emits no `true`.
C5_SilenceNeverActivates ==
    (/\ Called /\ AllZero(cb.data)
     /\ InUnit(LastOn) /\ InUnit(LastDeadband))
    => /\ ~mic_active
       /\ \A i \in 1..Len(LastEvents) : LastEvents[i] = FALSE

\* C5 amended: the same when threshold and deadband_factor are both in (0,1].
C5_SilenceInactiveWhenPositive ==
    (/\ Called /\ AllZero(cb.data)
     /\ FLt(Zero, LastOn) /\ FLe(LastOn, One)
     /\ FLt(Zero, LastDeadband) /\ FLe(LastDeadband, One))
    => /\ ~mic_active
       /\ \A i \in 1..Len(LastEvents) : LastEvents[i] = FALSE

\* silence has just released an Active detector under positive settings
C5_Witness ==
    /\ Called /\ AllZero(cb.data) /\ cb.was_active
    /\ FLt(Zero, LastOn) /\ FLt(Zero, LastDeadband)
    /\ ~mic_active /\ LastEvents = <<FALSE>>

\* C6: with threshold 0.0 and the detector Inactive, a callback on an
\* all-zero buffer makes the detector Active.
C6_ZeroThresholdActivates ==
    (Called /\ ~cb.was_active /\ FEq(LastOn, Zero) /\ AllZero(cb.data))
    => mic_active

\* capture/mod.rs has just activated on silence at threshold 0.0
C6_Witness ==
    /\ impl = "capture_mod" /\ Called /\ ~cb.was_active
    /\ FEq(LastOn, Zero) /\ AllZero(cb.data)
    /\ mic_active /\ LastEvents[1] = TRUE

\* C8: in capture/mod.rs, while every callback so far had RMS >= threshold:
\* with flicker on at every callback the emitted events alternate
\* true,false, one pair per callback; with flicker off at every callback
\* they are one `true` per callback.
C8_Flicker ==
    (impl = "capture_mod" /\ run.above)
    => /\ run.flick_on =>
            /\ Alternating(emitted)
            /\ Len(emitted) = 2 * ncb - (IF pc = "sleep" THEN 1 ELSE 0)
       /\ run.flick_off =>
            /\ \A i \in 1..Len(emitted) : emitted[i] = TRUE
            /\ Len(emitted) = ncb

\* two flicker callbacks on loud input have returned
C8_Witness ==
    /\ impl = "capture_mod" /\ run.above /\ run.flick_on
    /\ ncb = 2 /\ pc = "idle"
    /\ emitted = <<TRUE, FALSE, TRUE, FALSE>>

\* C9: no send of an event makes the callback thread panic, in any of the
\* capture implementations, also after the receiver has been dropped.
C9_SendNeverPanics == audio # "panicked"

\* C10: the MicActive payloads handled by update, followed by the events
\* still queued, are exactly the events the channel accepted, in order.
C10_Fifo ==
    /\ IsPrefix(handled, enqueued)
    /\ handled \o queue = enqueued

\* update has handled true, false, true as three messages
C10_Witness ==
    /\ handled = <<TRUE, FALSE, TRUE>>
    /\ enqueued = <<TRUE, FALSE, TRUE>>

\* C4: with threshold 0.5, deadband_factor 0.5 and flicker off, the RMS
\* sequence 0.1, 0.6, 0.4, 0.3, 0.24, 0.6 from Inactive gives the active
\* states, and the emitted events, false, true, true, true, false, true.
C4_Scenario1 ==
    /\ emitted = SubSeq(ScenarioActive, 1, ncb)
    /\ ncb > 0 => mic_active = ScenarioActive[ncb]

\* capture/mod.rs has processed the six buffers
C4_Witness ==
    /\ impl = "capture_mod" /\ ncb = Len(ScenarioRms)
    /\ emitted = ScenarioActive /\ mic_active

\* C7: two detectors started Inactive with thresholds t1 <= t2 and the same
\* deadband_factor in [0,1], fed the same buffers: at every frame the
\* t2-detector being Active implies the t1-detector is Active.
C7_ThresholdMonotone == mono.a2 => mono.a1

\* after two frames both detectors are Active under different thresholds
C7_Witness ==
    /\ mono.n >= 2 /\ FLt(mono.t1, mono.t2)
    /\ mono.a2 /\ mono.a1

\* C11: in every capture implementation, a callback that starts after update
\* has handled ThresholdChanged, DeadbandChanged or FlickerChanged compares
\* and emits with the values the shared configuration holds when it starts.
C11_ReconfigurationOnNextBuffer ==
    [][ncb' = ncb + 1 => cb'.cfg = config]_vars

\* C12: the audio thread never holds the configuration mutex while it is in
\* the flicker sleep (nor while it sends or appends samples).
C12_LockOnlyForSnapshot == pc = "sleep" => config_lock # "audio"

\* C13: once building or starting the input stream has failed, the process
\* is terminated: the main UI is not running and no MicActive was handled.
C13_SetupFailureTerminates ==
    audio = "failed" => (ui \notin {"running", "exited"} /\ handled = <<>>)

\* C14: when the image at index 0 or at index 1 is absent after load_images,
\* the application never reaches the main UI and handles no MicActive.
C14_MissingAssetsFatalAtStartup ==
    images < 2 => (ui \notin {"running", "exited"} /\ handled = <<>>)

\* C15: a callback invoked with an empty buffer does not go on to the
\* comparison and the emission: it sends no event.
C15_EmptyBufferGuard ==
    (Called /\ cb.data = <<>>) => LastEvents = <<>>

\* the longest buffer one callback receives
LongestBuffer == CHOOSE n \in { Len(d) : d \in Buffers } : \A d \in Buffers : Len(d) <= n

\* C16: the accumulation buffer never holds more than a fixed number of
\* samples, here what one callback delivers, however many callbacks ran.
C16_BoundedAllocation == Len(buffer) <= LongestBuffer

\* a Receiver exists and the process that owns it has not aborted
ReceiverAlive == receiver_alive /\ ProcessAlive

\* the most events the callbacks of one run can send
MaxEvents == 2 * MaxCallbacks

\* C17: while the receiver is alive every event passed to a send has been
\* accepted by the channel, and every accepted event is eventually given
\* to update as a MicActive message, unless the receiver goes away first.
C17_NoLossEventualDelivery ==
    /\ [](ReceiverAlive => enqueued = emitted)
    /\ \A n \in 1..MaxEvents :
          (Len(enqueued) >= n) ~> (Len(handled) >= n \/ ~ReceiverAlive)

\* update has handled both events of two flicker callbacks of capture/mod.rs
C17_Witness ==
    /\ impl = "capture_mod" /\ ReceiverAlive
    /\ emitted = <<TRUE, FALSE, TRUE, FALSE>>
    /\ handled = emitted /\ queue = <<>>

\* C18: a step in which err_fn logs a stream error changes nothing but
\* stderr: the detector state, the configuration, the accumulation buffer,
\* the channel and the UI state stay as they are, no event is sent, and the
\* stream keeps running for later callbacks.
C18_StreamErrorContained ==
    [][stderr' # stderr =>
          /\ audio' = "running"
          /\ UNCHANGED <<mic_active, config, snapshot, config_toml, buffer, emitted,
                         enqueued, queue, handled, ui, mic_activated, curr_image,
                         receiver_alive, ncb>>]_vars

\* an error was logged after the first callback, and the second callback
\* then ran and activated the detector
C18_Witness ==
    /\ stderr = <<1>> /\ ncb = 2 /\ audio = "running"
    /\ ~cb.was_active /\ mic_active

\* C19: the values every callback reads satisfy microphone_threshold >= 0
\* and deadband_factor in [0,1], so that the deactivation level it computes
\* is at most the threshold.
C19_OffThresholdInvariant ==
    Called => /\ FGe(LastOn, Zero)
              /\ InUnit(LastDeadband)
              /\ FLe(LastOff, LastOn)

\* C20: a callback that has returned has sent at least one event: exactly
\* one `false` if it left the detector Inactive, exactly one `true` if it
\* left it Active with flicker off, and (capture/mod.rs) exactly `true` then
\* `false` if it left it Active with flicker on; mic_active is still true
\* after that trailing `false`.  During the flicker sleep only the `true`
\* has been sent.
C20_EventsPerCallback ==
    /\ (Called /\ pc = "idle") =>
          /\ Len(LastEvents) >= 1
          /\ ~mic_active => LastEvents = <<FALSE>>
          /\ (mic_active /\ ~cb.cfg.flicker_input) => LastEvents = <<TRUE>>
          /\ (impl = "capture_mod" /\ mic_active /\ cb.cfg.flicker_input)
                => LastEvents = <<TRUE, FALSE>>
    /\ pc = "sleep" => (mic_active /\ LastEvents = <<TRUE>>)

\* the second flicker callback found the detector still Active after the
\* trailing `false` of the first, and sent its own pair
C20_Witness ==
    /\ impl = "capture_mod" /\ ncb = 2 /\ pc = "idle"
    /\ cb.cfg.flicker_input /\ cb.was_active /\ mic_active
    /\ LastEvents = <<TRUE, FALSE>>
    /\ FLt(LastRms, LastOn)

\* ------------------------------------------------------------------ C21
\* C21: once a MicActive message has been handled, mic_activated is the
\* payload of the most recently handled one and curr_image is image 1 when
\* it is true and image 0 when it is false; a step that handles no MicActive
\* message (ThresholdChanged, DeadbandChanged, FlickerChanged, SwitchView,
\* InputChanged, AppEvent) leaves mic_activated and curr_image unchanged.
C21_DisplayFollowsLastEvent ==
    /\ []((handled # <<>> /\ ProcessAlive) =>
            /\ mic_activated = handled[Len(handled)]
            /\ curr_image = (IF handled[Len(handled)] THEN 1 ELSE 0))
    /\ [][handled' = handled => UNCHANGED <<mic_activated, curr_image>>]_vars

\* true then a settings message and window messages were handled after the
\* last MicActive(true) could arrive, and the window shows image 1
C21_Witness ==
    /\ handled = <<FALSE, TRUE>> /\ ProcessAlive
    /\ mic_activated /\ curr_image = 1
    /\ nreconf = 1
    /\ screen.curr_view = "Settings" /\ screen.show_modal /\ screen.chroma_key

\* ------------------------------------------------------------------ C22
\* C22: the detector starts Inactive; when the RMS of the first buffer is
\* below the threshold, the first event is false and the detector is still
\* Inactive, also when that RMS lies in [threshold*deadband, threshold);
\* and mic_active goes from true to false only in a callback that entered
\* Active and measured an RMS below threshold*deadband.
C22_InitialState ==
    /\ [](ncb = 0 => ~mic_active)
    /\ []((ncb = 1 /\ FLt(LastRms, LastOn)) =>
            /\ emitted # <<>> /\ emitted[1] = FALSE
            /\ ~cb.was_active /\ ~mic_active)
    /\ [][(mic_active /\ ~mic_active') =>
            /\ ncb' = ncb + 1
            /\ cb'.was_active
            /\ FLt(cb'.rms, rms_threshold_off(cb'.cfg))]_vars

\* the first buffer measured an RMS inside the band, above a positive
\* release level, and the first event was false
C22_Witness ==
    /\ ncb = 1 /\ emitted = <<FALSE>> /\ ~mic_active
    /\ FLt(Zero, LastOff) /\ FLe(LastOff, LastRms) /\ FLt(LastRms, LastOn)

\* ------------------------------------------------------------------ C23
\* C23: ThresholdChanged changes only microphone_threshold, DeadbandChanged
\* only deadband_factor, FlickerChanged only flicker_input; MicActive,
\* SwitchView, InputChanged and AppEvent leave the configuration unchanged;
\* and no message handled by update changes mic_active.
C23_ReconfigurationFrame ==
    [][/\ (\E h \in ThresholdSteps : UpdateThresholdChanged(h)) =>
            /\ config'.deadband_factor = config.deadband_factor
            /\ config'.flicker_input = config.flicker_input
            /\ mic_active' = mic_active
       /\ (\E h \in DeadbandSteps : UpdateDeadbandChanged(h)) =>
            /\ config'.microphone_threshold = config.microphone_threshold
            /\ config'.flicker_input = config.flicker_input
            /\ mic_active' = mic_active
       /\ UpdateFlickerChanged =>
            /\ config'.microphone_threshold = config.microphone_threshold
            /\ config'.deadband_factor = config.deadband_factor
            /\ mic_active' = mic_active
       /\ (\/ UpdateMicActive
           \/ \E view \in Views : UpdateSwitchView(view)
           \/ \E device \in InputDevices : UpdateInputChanged(device)
           \/ \E key \in Keys : UpdateAppEvent(key)) =>
            /\ config' = config
            /\ mic_active' = mic_active]_vars

\* the threshold alone was changed while the detector was Active, MicActive
\* and window messages were handled, and the detector is still Active
C23_Witness ==
    /\ nreconf = 1 /\ mic_active /\ handled # <<>>
    /\ config.microphone_threshold # DefaultConfig.microphone_threshold
    /\ config.deadband_factor = DefaultConfig.deadband_factor
    /\ config.flicker_input = DefaultConfig.flicker_input
    /\ screen.curr_view = "About" /\ ~screen.show_buttons

\* ------------------------------------------------------------------ C24
\* the step in which a callback returns: at once, or after the flicker sleep
CallbackReturns ==
    \/ ncb' = ncb + 1 /\ pc' = "idle" /\ audio' = "running"
    \/ pc = "sleep" /\ pc' = "idle"

\* C24: a callback that returns with the detector Inactive leaves the
\* accumulation buffer unchanged; one that returns with the detector Active
\* appends the converted value of every sample of its input, in order, also
\* when it sent true,false in flicker mode; no other step changes the
\* buffer, so it is never truncated.
C24_AccumulationOnlyWhileActive ==
    [][/\ (CallbackReturns /\ ~mic_active') => buffer' = buffer
       /\ (CallbackReturns /\ mic_active') =>
            /\ IsPrefix(buffer, buffer')
            /\ Len(buffer') = Len(buffer) + Len(cb'.data)
            /\ \A i \in 1..Len(cb'.data) : buffer'[Len(buffer) + i] = ToI16(cb'.data[i])
       /\ ~CallbackReturns => buffer' = buffer]_vars

\* two callbacks in flicker mode have returned Active, the last event sent
\* is false, and the buffer holds both inputs, among them a silent one
C24_Witness ==
    /\ impl = "capture_mod" /\ pc = "idle" /\ mic_active
    /\ emitted = <<TRUE, FALSE, TRUE, FALSE>>
    /\ cb.data = Buf(<<0, 0>>)
    /\ Len(buffer) = 5

\* ------------------------------------------------------------------ C25
\* C25 as stated: with flicker_input false in every callback, no failed
\* send and at least one event handled, whenever the channel is empty and
\* no callback is in progress, mic_activated equals mic_active.
C25_AgreeWhenChannelEmpty ==
    (/\ run.flick_off /\ enqueued = emitted /\ handled # <<>>
     /\ queue = <<>> /\ pc = "idle" /\ ProcessAlive)
    => mic_activated = mic_active

\* C25, amended: with flicker_input false in every callback, no failed
\* send and at least one event handled, whenever every event sent has been
\* handled by update and no callback is in progress, mic_activated equals
\* mic_active.
C25_AgreeWhenAllHandled ==
    (/\ run.flick_off /\ enqueued = emitted /\ handled # <<>>
     /\ Len(handled) = Len(enqueued) /\ pc = "idle" /\ ProcessAlive)
    => mic_activated = mic_active

\* the detector went Active and Inactive again, both events were handled,
\* and the window shows the Inactive image
C25_Witness ==
    /\ run.flick_off /\ emitted = <<TRUE, FALSE>> /\ handled = emitted
    /\ pc = "idle" /\ inbox.kind = "none"
    /\ ~mic_active /\ ~mic_activated /\ curr_image = 0

\* ------------------------------------------------------------------ C26
\* the callback has asked for a mutex that another holder has
AudioWaits ==
    \/ pc = "lock_config" /\ config_lock # "free"
    \/ pc = "lock_buffer" /\ buffer_lock # "free"

\* update or view_settings has asked for the configuration mutex and it is
\* taken
UiWaits == inbox.at = "lock" /\ config_lock # "free"

C27_FlickerPulseVisible ==
    run.flick_on =>
        /\ pc = "sleep" => inbox.at # "body"
        /\ \A k \in 1..Len(handled) :
              handled[k] => (Len(enqueued) > k /\ ~enqueued[k + 1])
        /\ (inbox.kind = "MicActive" /\ inbox.at = "body" /\ inbox.flag) =>
              (Len(enqueued) > Len(handled) + 1 /\ ~enqueued[Len(handled) + 2])

\* update took the true of a pair off the channel during the sleep, waited
\* for the mutex, and has handled it with the false queued behind it
C27_Witness ==
    /\ run.flick_on /\ ncb = 1
    /\ handled = <<TRUE>> /\ enqueued = <<TRUE, FALSE>> /\ queue = <<FALSE>>
====
